---------------------------- MODULE Spec2Model ----------------------------
(***************************************************************************)
(* Conversion orchestration of convertz-backend.  The repository holds     *)
(* three variants of the same server:                                      *)
(*   "cjs"  src/server.cjs                                                 *)
(*   "p0"   src/unnamed/part_000                                           *)
(*   "p1"   src/unnamed/part_001                                           *)
(* A running process is one of them (variable variant).                    *)
(*                                                                         *)
(* JavaScript strings are sequences of one-character strings, so that      *)
(* toLowerCase, path.extname, String.replace and template strings are      *)
(* computed the way the code computes them.  A random token (multer's hex  *)
(* file name, a uuid) is one symbol "#j" naming the job it was drawn for;  *)
(* a directory prefix is one symbol ("uploads", "outputs", "temp").        *)
(***************************************************************************)
EXTENDS Integers, Sequences, FiniteSets, TLC

(* ------------------------------ strings ------------------------------ *)

Lowers == <<"a","b","c","d","e","f","g","h","i","j","k","l","m",
            "n","o","p","q","r","s","t","u","v","w","x","y","z">>

Uppers == <<"A","B","C","D","E","F","G","H","I","J","K","L","M",
            "N","O","P","Q","R","S","T","U","V","W","X","Y","Z">>

\* the upper-case letters mapped to their lower-case letters
LowerOf == [c \in {Uppers[i] : i \in DOMAIN Uppers} |->
              Lowers[CHOOSE i \in DOMAIN Uppers : Uppers[i] = c]]

\* the lower-case letters mapped to their upper-case letters
UpperOf == [c \in {Lowers[i] : i \in DOMAIN Lowers} |->
              Uppers[CHOOSE i \in DOMAIN Lowers : Lowers[i] = c]]

LowerChar(c) == IF c \in DOMAIN LowerOf THEN LowerOf[c] ELSE c

UpperChar(c) == IF c \in DOMAIN UpperOf THEN UpperOf[c] ELSE c

\* String.prototype.toLowerCase
toLowerCase(s) == [i \in DOMAIN s |-> LowerChar(s[i])]

\* String.prototype.toUpperCase
toUpperCase(s) == [i \in DOMAIN s |-> UpperChar(s[i])]

\* s.slice(n) for n >= 0 (0-based start)
slice(s, n) == IF n >= Len(s) THEN <<>> ELSE SubSeq(s, n + 1, Len(s))

\* Array.prototype.includes
includes(list, x) == \E i \in DOMAIN list : list[i] = x

\* the positions (1-based) at which pat occurs in s; "" occurs at 1
Occurrences(s, pat) ==
  {i \in 1..(Len(s) - Len(pat) + 1) : SubSeq(s, i, i + Len(pat) - 1) = pat}

Min(S) == CHOOSE x \in S : \A y \in S : x <= y

Max(S) == CHOOSE x \in S : \A y \in S : x >= y

\* String.prototype.replace(pat, rep) with a string pattern: the first
\* occurrence only; the empty pattern matches before the first character
replace(s, pat, rep) ==
  IF Occurrences(s, pat) = {} THEN s
  ELSE LET i == Min(Occurrences(s, pat))
       IN SubSeq(s, 1, i - 1) \o rep \o SubSeq(s, i + Len(pat), Len(s))

\* String.prototype.startsWith
startsWith(s, pre) == Len(pre) <= Len(s) /\ SubSeq(s, 1, Len(pre)) = pre

\* String.prototype.endsWith
endsWith(s, suf) ==
  Len(suf) <= Len(s) /\ SubSeq(s, Len(s) - Len(suf) + 1, Len(s)) = suf

(* ------------------------------- paths ------------------------------- *)

Sep == "/"

Dot == "."

SlashAt(p) == {i \in DOMAIN p : p[i] = Sep}

\* path.basename(p)
basename(p) == IF SlashAt(p) = {} THEN p ELSE slice(p, Max(SlashAt(p)))

\* path.dirname(p); "." when p has no directory part
dirname(p) ==
  IF SlashAt(p) = {} THEN <<Dot>> ELSE SubSeq(p, 1, Max(SlashAt(p)) - 1)

\* the index of the dot that starts the extension of base name b, 0 if none:
\* the last dot, unless it is the first character of the name
ExtDot(b) ==
  LET dots == {i \in DOMAIN b : b[i] = Dot}
  IN IF dots = {} \/ Max(dots) = 1 THEN 0 ELSE Max(dots)

\* path.extname(p): from the last dot of the base name, "" if there is none
extname(p) ==
  LET b == basename(p)
  IN IF ExtDot(b) = 0 THEN <<>> ELSE slice(b, ExtDot(b) - 1)

\* path.parse(p).name: the base name without its extension
parseName(p) ==
  LET b == basename(p)
  IN IF ExtDot(b) = 0 THEN b ELSE SubSeq(b, 1, ExtDot(b) - 1)

\* path.basename(p, ext): the base name without ext when it ends with it
basenameExt(p, ext) ==
  LET b == basename(p)
  IN IF ext # <<>> /\ endsWith(b, ext) /\ Len(ext) < Len(b)
     THEN SubSeq(b, 1, Len(b) - Len(ext)) ELSE b

\* path.join(dir, name) for a dir without a trailing separator
join(dir, name) == dir \o <<Sep>> \o name

(* ------------------------- format names ------------------------- *)
\* each format name of the source as a string (one character per element)
png == <<"p","n","g">>

jpg == <<"j","p","g">>

jpeg == <<"j","p","e","g">>

webp == <<"w","e","b","p">>

gif == <<"g","i","f">>

bmp == <<"b","m","p">>

tiff == <<"t","i","f","f">>

svg == <<"s","v","g">>

ico == <<"i","c","o">>

pdf == <<"p","d","f">>

doc == <<"d","o","c">>

docx == <<"d","o","c","x">>

txt == <<"t","x","t">>

rtf == <<"r","t","f">>

html == <<"h","t","m","l">>

odt == <<"o","d","t">>

pages == <<"p","a","g","e","s">>

mp3 == <<"m","p","3">>

wav == <<"w","a","v">>

flac == <<"f","l","a","c">>

aac == <<"a","a","c">>

ogg == <<"o","g","g">>

m4a == <<"m","4","a">>

wma == <<"w","m","a">>

mp4 == <<"m","p","4">>

avi == <<"a","v","i">>

mov == <<"m","o","v">>

mkv == <<"m","k","v">>

webm == <<"w","e","b","m">>

wmv == <<"w","m","v">>

flv == <<"f","l","v">>

xls == <<"x","l","s">>

xlsx == <<"x","l","s","x">>

ppt == <<"p","p","t">>

pptx == <<"p","p","t","x">>

ods == <<"o","d","s">>

odp == <<"o","d","p">>

csv == <<"c","s","v">>

xyz == <<"x","y","z">>

\* the stem of the conversion note file names, "_conversion_note"
conversion_note ==
  <<"_","c","o","n","v","e","r","s","i","o","n","_","n","o","t","e">>

\* the prefix of part_000's output names, "converted_"
converted_ == <<"c","o","n","v","e","r","t","e","d","_">>

(* ------------------------------ state ------------------------------- *)

VARIABLES
  variant,               \* which server file runs: "cjs", "p0" or "p1"
  ffmpegInstalled,       \* the environment: `ffmpeg` is on the PATH
  libreofficeInstalled,  \* the environment: `libreoffice` is on the PATH
  sofficeInstalled,      \* the environment: `soffice` is on the PATH
  clsName,               \* getFileCategory: the file name last classified
  clsOut,                \* getFileCategory: the category returned for it
  fmtQuery,              \* GET /api/formats/:inputFormat: the parameter
  fmtCaps,               \* ... the capabilities probed by that request
  fmtOut,                \* ... the formats array of the response
  probe,                 \* GET /api/health, /api/capabilities: the last answer
  job,                   \* POST /api/convert: the state of each request
  fs,                    \* the files on disk: path -> what the file holds
  tempDirs,              \* part_000: the jobs whose temp/<uuid> exists
  now,                   \* part_000: the value of Date.now()
  crashed,               \* an exception escaped a listener: process gone
  unlinkFails            \* the environment: deleting an upload or output fails

envVars == <<ffmpegInstalled, libreofficeInstalled, sofficeInstalled>>

clsVars == <<clsName, clsOut>>

fmtVars == <<fmtQuery, fmtCaps, fmtOut, probe>>

jobVars == <<job, fs, tempDirs, now, crashed>>

vars == <<variant, unlinkFails, envVars, clsVars, fmtVars, jobVars>>

Variants == {"cjs", "p0", "p1"}

\* the value of a variable that holds no answer yet
None == "none"

(* ------------------------- format classifier ------------------------ *)

\* server.cjs getFileCategory: the four extension arrays
imageExts == <<png, jpg, jpeg, webp, gif, bmp, tiff>>

docExts == <<pdf, doc, docx, txt, rtf, html, odt>>

audioExts == <<mp3, wav, flac, aac, ogg, m4a>>

videoExts == <<mp4, avi, mov, mkv, webm, wmv>>

\* server.cjs getFileCategory, without the toLowerCase() of the extension
getFileCategory_cjs_CaseSensitive(fileName) ==
  LET ext == slice(extname(fileName), 1)
  IN IF includes(imageExts, ext) THEN "images"
     ELSE IF includes(docExts, ext) THEN "documents"
     ELSE IF includes(audioExts, ext) THEN "audio"
     ELSE IF includes(videoExts, ext) THEN "video"
     ELSE "documents"

\* server.cjs getFileCategory
getFileCategory_cjs(fileName) ==
  LET ext == toLowerCase(slice(extname(fileName), 1))
  IN IF includes(imageExts, ext) THEN "images"
     ELSE IF includes(docExts, ext) THEN "documents"
     ELSE IF includes(audioExts, ext) THEN "audio"
     ELSE IF includes(videoExts, ext) THEN "video"
     ELSE "documents"

\* part_001 getFileCategory: the categories object, in its key order
categories ==
  << [category |-> "image",
      extensions |-> <<jpg, jpeg, png, webp, gif, bmp, tiff, svg, ico>>],
     [category |-> "document",
      extensions |-> <<pdf, docx, doc, txt, rtf, odt, pages>>],
     [category |-> "audio",
      extensions |-> <<mp3, wav, flac, aac, ogg, m4a, wma>>],
     [category |-> "video",
      extensions |-> <<mp4, avi, mov, mkv, wmv, flv, webm>>] >>

\* part_001 getFileCategory: the first entry of categories that includes
\* the lower-cased extension, 'document' when none does
getFileCategory_p1(filename) ==
  LET ext  == slice(toLowerCase(extname(filename)), 1)
      hits == {i \in DOMAIN categories : includes(categories[i].extensions, ext)}
  IN IF hits = {} THEN "document" ELSE categories[Min(hits)].category

\* getFileCategory of the running variant (part_000 has none)
getFileCategory(v, name) ==
  IF v = "cjs" THEN getFileCategory_cjs(name) ELSE getFileCategory_p1(name)

(* ------------------------- capability prober ------------------------ *)

\* the outcome of exec(<command> ...) for a version probe: no error exactly
\* when the command is installed
ExecSucceeds(command, ff, lo, so) ==
  CASE command = "ffmpeg"      -> ff
    [] command = "libreoffice" -> lo
    [] command = "soffice"     -> so
    [] OTHER                   -> FALSE

\* part_000 checkCapabilities without the second attempt under the name
\* soffice
checkCapabilities_NoAlias(ff, lo, so) ==
  [ sharp       |-> TRUE,
    ffmpeg      |-> ExecSucceeds("ffmpeg", ff, lo, so),
    libreoffice |-> ExecSucceeds("libreoffice", ff, lo, so) ]

\* part_000 checkCapabilities in an environment (ff, lo, so): libreoffice is
\* probed first and soffice only when that fails
checkCapabilities(ff, lo, so) ==
  [ sharp       |-> TRUE,
    ffmpeg      |-> ExecSucceeds("ffmpeg", ff, lo, so),
    libreoffice |-> IF ExecSucceeds("libreoffice", ff, lo, so) THEN TRUE
                    ELSE ExecSucceeds("soffice", ff, lo, so) ]

(* --------------------------- support matrix ------------------------- *)

\* part_000 formatMap with every media entry listed whatever the probe says
formatMap_MediaUngated(capabilities) ==
  << [key |-> jpg,  targets |-> <<png, webp, tiff, bmp, jpeg>>],
     [key |-> jpeg, targets |-> <<png, webp, tiff, bmp, jpg>>],
     [key |-> png,  targets |-> <<jpg, jpeg, webp, tiff, bmp>>],
     [key |-> webp, targets |-> <<jpg, jpeg, png, tiff, bmp>>],
     [key |-> tiff, targets |-> <<jpg, jpeg, png, webp, bmp>>],
     [key |-> bmp,  targets |-> <<jpg, jpeg, png, webp, tiff>>],
     [key |-> mp4,  targets |-> <<avi, mov, wmv, flv>>],
     [key |-> avi,  targets |-> <<mp4, mov, wmv, flv>>],
     [key |-> mov,  targets |-> <<mp4, avi, wmv, flv>>],
     [key |-> wmv,  targets |-> <<mp4, avi, mov, flv>>],
     [key |-> flv,  targets |-> <<mp4, avi, mov, wmv>>],
     [key |-> mp3,  targets |-> <<wav, ogg, aac, m4a>>],
     [key |-> wav,  targets |-> <<mp3, ogg, aac, m4a>>],
     [key |-> ogg,  targets |-> <<mp3, wav, aac, m4a>>],
     [key |-> aac,  targets |-> <<mp3, wav, ogg, m4a>>],
     [key |-> m4a,  targets |-> <<mp3, wav, ogg, aac>>],
     [key |-> pdf,  targets |-> IF capabilities.libreoffice THEN <<docx, odt, txt, rtf>> ELSE <<>>],
     [key |-> doc,  targets |-> IF capabilities.libreoffice THEN <<pdf, docx, odt, txt, rtf>> ELSE <<>>],
     [key |-> docx, targets |-> IF capabilities.libreoffice THEN <<pdf, doc, odt, txt, rtf>> ELSE <<>>],
     [key |-> xls,  targets |-> IF capabilities.libreoffice THEN <<xlsx, ods, csv>> ELSE <<>>],
     [key |-> xlsx, targets |-> IF capabilities.libreoffice THEN <<xls, ods, csv>> ELSE <<>>],
     [key |-> ppt,  targets |-> IF capabilities.libreoffice THEN <<pptx, odp, pdf>> ELSE <<>>],
     [key |-> pptx, targets |-> IF capabilities.libreoffice THEN <<ppt, odp, pdf>> ELSE <<>>],
     [key |-> odt,  targets |-> IF capabilities.libreoffice THEN <<pdf, doc, docx, txt, rtf>> ELSE <<>>],
     [key |-> ods,  targets |-> IF capabilities.libreoffice THEN <<xls, xlsx, csv>> ELSE <<>>],
     [key |-> odp,  targets |-> IF capabilities.libreoffice THEN <<ppt, pptx, pdf>> ELSE <<>>],
     [key |-> rtf,  targets |-> IF capabilities.libreoffice THEN <<pdf, doc, docx, odt, txt>> ELSE <<>>],
     [key |-> txt,  targets |-> IF capabilities.libreoffice THEN <<pdf, doc, docx, odt, rtf>> ELSE <<>>] >>

\* part_000 formatMap, built from the capabilities probed by the request
formatMap(capabilities) ==
  << [key |-> jpg,  targets |-> <<png, webp, tiff, bmp, jpeg>>],
     [key |-> jpeg, targets |-> <<png, webp, tiff, bmp, jpg>>],
     [key |-> png,  targets |-> <<jpg, jpeg, webp, tiff, bmp>>],
     [key |-> webp, targets |-> <<jpg, jpeg, png, tiff, bmp>>],
     [key |-> tiff, targets |-> <<jpg, jpeg, png, webp, bmp>>],
     [key |-> bmp,  targets |-> <<jpg, jpeg, png, webp, tiff>>],
     [key |-> mp4,  targets |-> IF capabilities.ffmpeg THEN <<avi, mov, wmv, flv>> ELSE <<>>],
     [key |-> avi,  targets |-> IF capabilities.ffmpeg THEN <<mp4, mov, wmv, flv>> ELSE <<>>],
     [key |-> mov,  targets |-> IF capabilities.ffmpeg THEN <<mp4, avi, wmv, flv>> ELSE <<>>],
     [key |-> wmv,  targets |-> IF capabilities.ffmpeg THEN <<mp4, avi, mov, flv>> ELSE <<>>],
     [key |-> flv,  targets |-> IF capabilities.ffmpeg THEN <<mp4, avi, mov, wmv>> ELSE <<>>],
     [key |-> mp3,  targets |-> IF capabilities.ffmpeg THEN <<wav, ogg, aac, m4a>> ELSE <<>>],
     [key |-> wav,  targets |-> IF capabilities.ffmpeg THEN <<mp3, ogg, aac, m4a>> ELSE <<>>],
     [key |-> ogg,  targets |-> IF capabilities.ffmpeg THEN <<mp3, wav, aac, m4a>> ELSE <<>>],
     [key |-> aac,  targets |-> IF capabilities.ffmpeg THEN <<mp3, wav, ogg, m4a>> ELSE <<>>],
     [key |-> m4a,  targets |-> IF capabilities.ffmpeg THEN <<mp3, wav, ogg, aac>> ELSE <<>>],
     [key |-> pdf,  targets |-> IF capabilities.libreoffice THEN <<docx, odt, txt, rtf>> ELSE <<>>],
     [key |-> doc,  targets |-> IF capabilities.libreoffice THEN <<pdf, docx, odt, txt, rtf>> ELSE <<>>],
     [key |-> docx, targets |-> IF capabilities.libreoffice THEN <<pdf, doc, odt, txt, rtf>> ELSE <<>>],
     [key |-> xls,  targets |-> IF capabilities.libreoffice THEN <<xlsx, ods, csv>> ELSE <<>>],
     [key |-> xlsx, targets |-> IF capabilities.libreoffice THEN <<xls, ods, csv>> ELSE <<>>],
     [key |-> ppt,  targets |-> IF capabilities.libreoffice THEN <<pptx, odp, pdf>> ELSE <<>>],
     [key |-> pptx, targets |-> IF capabilities.libreoffice THEN <<ppt, odp, pdf>> ELSE <<>>],
     [key |-> odt,  targets |-> IF capabilities.libreoffice THEN <<pdf, doc, docx, txt, rtf>> ELSE <<>>],
     [key |-> ods,  targets |-> IF capabilities.libreoffice THEN <<xls, xlsx, csv>> ELSE <<>>],
     [key |-> odp,  targets |-> IF capabilities.libreoffice THEN <<ppt, pptx, pdf>> ELSE <<>>],
     [key |-> rtf,  targets |-> IF capabilities.libreoffice THEN <<pdf, doc, docx, odt, txt>> ELSE <<>>],
     [key |-> txt,  targets |-> IF capabilities.libreoffice THEN <<pdf, doc, docx, odt, rtf>> ELSE <<>>] >>

\* formatMap[inputFormat.toLowerCase()] || []
supportedFormats(inputFormat, capabilities) ==
  LET m    == formatMap(capabilities)
      hits == {i \in DOMAIN m : m[i].key = toLowerCase(inputFormat)}
  IN IF hits = {} THEN <<>> ELSE m[Min(hits)].targets

(* ---------------------------- file system --------------------------- *)

\* the concurrent /api/convert requests; "#1" also stands for the random
\* token (multer's hex name, a uuid) drawn for request #1
Jobs == {"#1", "#2"}

uploadsDir == <<"uploads">>

outputsDir == <<"outputs">>

tempRoot == <<"temp">>

\* the directories each variant creates at start-up; a file can be written
\* only into one of them
Dirs(v) == IF v = "p1" THEN {uploadsDir, outputsDir} ELSE {uploadsDir}

\* a write to path p succeeds (its directory exists), else it throws ENOENT
writeOk(v, p) == dirname(p) \in Dirs(v)

\* what a file holds: which request's data, and of what kind
Content(j, kind) == [by |-> j, kind |-> kind]

NoContent == [by |-> None, kind |-> None]

existsSync(f, p) == p \in DOMAIN f

\* a file written (created or overwritten)
Put(f, p, c) == [q \in DOMAIN f \cup {p} |-> IF q = p THEN c ELSE f[q]]

\* `if (fs.existsSync(file)) fs.unlinkSync(file)` for each path of P
Unlink(f, P) == [q \in DOMAIN f \ P |-> f[q]]

\* the message of the error unlinkSync throws when the deletion is refused
UnlinkError == "EPERM: operation not permitted, unlink"

\* unlinkSync / fs.remove of the paths of P that exist throws or rejects
unlinkThrows(f, P) == unlinkFails /\ (P \cap DOMAIN f) # {}

\* the files after an attempt to delete the paths of P: a refused deletion
\* leaves its file in place
TryUnlink(f, P) == IF unlinkThrows(f, P) THEN f ELSE Unlink(f, P)

\* fs.moveSync(a, b) of an existing a to an absent b
Move(f, a, b) == Put(Unlink(f, {a}), b, f[a])

\* the files on disk that hold data of request j
JobFiles(f, j) == {p \in DOMAIN f : f[p].by = j}

(* ------------------------------ requests ---------------------------- *)

\* the size in bytes of an ordinary upload
SmallSize == 1024

\* the multipart requests posted to /api/convert: whether a file part is
\* present, its original name, the outputFormat field ("" when absent) and
\* the size of the file part
Request(file, originalname, outputFormat) ==
  [file |-> file, originalname |-> originalname, outputFormat |-> outputFormat,
   size |-> IF file THEN SmallSize ELSE 0]

\* multer's limits.fileSize of each variant, in bytes
fileSize(v) == IF v = "p0" THEN 50 * 1024 * 1024 ELSE 100 * 1024 * 1024

\* the same request with a file part of n bytes
Sized(r, n) == [r EXCEPT !.size = n]

NameOf(base, ext) == base \o <<Dot>> \o ext

Requests ==
  { Request(TRUE,  NameOf(<<"a">>, png),  webp),
    Request(TRUE,  NameOf(<<"a">>, png),  xyz),
    Request(TRUE,  NameOf(<<"a">>, docx), pdf),
    Request(TRUE,  NameOf(<<"a">>, docx), txt),
    Request(TRUE,  NameOf(<<"a">>, docx), <<>>),
    Request(TRUE,  NameOf(<<"a">>, mov),  mp4),
    Request(TRUE,  NameOf(<<"a">>, mov),  xyz),
    Request(TRUE,  NameOf(<<"a">>, xyz),  pdf),
    Request(FALSE, <<>>, pdf),
    Request(FALSE, <<>>, <<>>),
    Sized(Request(TRUE, NameOf(<<"a">>, png), webp), fileSize("p0") + 1),
    Sized(Request(TRUE, NameOf(<<"a">>, png), webp), fileSize("cjs") + 1) }

NoRequest == Request(FALSE, <<>>, <<>>)

\* a response: none yet, a JSON body, or a file download
NoResponse ==
  [status |-> 0, kind |-> None, error |-> "", details |-> "",
   fileName |-> <<>>, path |-> <<>>, body |-> NoContent]

Json(status, error, details) ==
  [status |-> status, kind |-> "json", error |-> error, details |-> details,
   fileName |-> <<>>, path |-> <<>>, body |-> NoContent]

\* res.download(path, fileName): a 200 response streaming the file at path
Download(f, path, fileName) ==
  [status |-> 200, kind |-> "download", error |-> "", details |-> "",
   fileName |-> fileName, path |-> path, body |-> f[path]]

\* a request slot before its request arrives
IdleJob ==
  [pc        |-> "idle",     \* idle, running, sending, timer, done, lost
   req       |-> NoRequest,
   inPath    |-> <<>>,       \* req.file.path
   outPath   |-> <<>>,       \* the handler's outputPath
   tool      |-> None,       \* the backend invoked: sharp, ffmpeg, libreoffice
   invoked   |-> 0,          \* how many times a converter was called for it
   client    |-> "connected",\* the client's connection while the request is
                             \* open: connected, gone; closed once answered
   outcome   |-> None,       \* how the backend ended
   elapsed   |-> 0,          \* ms the spawned document process has run
   xfer      |-> None,       \* the download transfer: sending, ok, err
   pendingRm |-> {},         \* part_001: fs.remove() started, not finished
   cleanups  |-> 0,          \* how many times a cleanup of the job ran
   atResp    |-> {},         \* the job's files on disk when it was answered
   adapter   |-> None,       \* how the promise of convertWithLibreOffice
                             \* (part_000) or of a media conversion settled
   found     |-> <<>>,       \* ... and the path it resolved with
   outRemoved |-> FALSE,     \* while sharp or ffmpeg runs: another request's
                             \* cleanup has deleted the path it writes to
   resp      |-> NoResponse]

\* req.file.path as multer names it: dest gives a random hex name without
\* extension, part_001's diskStorage gives `${uuidv4()}-${originalname}`
multerPath(v, j, originalname) ==
  IF v = "p1" THEN join(uploadsDir, <<j, "-">> \o originalname)
  ELSE join(uploadsDir, <<j>>)

\* upload.single('file') with no size limit at all
LimitExceeded_Unlimited(v, r) == FALSE

\* upload.single('file'): the file part is larger than limits.fileSize
LimitExceeded(v, r) == r.file /\ r.size > fileSize(v)

\* the answer to an error passed to next(): part_001's error middleware
\* sends JSON, the other variants leave it to express's default handler
ErrorHandler(v, message) ==
  IF v = "p1" THEN Json(500, "Internal server error", message)
  ELSE [NoResponse EXCEPT !.status = 500, !.kind = "html"]

(* ------------------------------ backends ---------------------------- *)

\* milliseconds after which exec() kills the document process
\* (`timeout: 30000`)
ExecTimeoutMs == 30000

\* the step by which the model advances a running process's clock
TickMs == 10000

\* the model stops the clock of a process that never exits here
MaxElapsedMs == 40000

\* the model's last value of Date.now()
MaxNow == 1

\* how sharp(...).toFile(out) can end: it fails when the file cannot be
\* opened for writing, and may fail on the input
SharpOutcomes(v, out) == IF writeOk(v, out) THEN {"ok", "error"} ELSE {"error"}

\* how an ffmpeg run can end: the 'end' event, or the 'error' event with or
\* without a partly written output; only 'error' when ffmpeg is missing or
\* the output cannot be opened
FfmpegOutcomes(v, out) ==
  IF ffmpegInstalled /\ writeOk(v, out)
  THEN {"end", "error", "error_partial"} ELSE {"error"}

\* how a LibreOffice run that exits can end: exit 0 with the converted file
\* written, exit 0 with nothing written, a non-zero exit; a command that is
\* not installed fails at once
LibreOfficeOutcomes(installed) ==
  IF installed THEN {"ok", "nooutput", "error"} ELSE {"error"}

\* the file LibreOffice writes for input `inp` converted to `fmt` into
\* outdir: the input's base name with the new extension
LibreOfficeOutput(inp, outdir, fmt) ==
  join(outdir, parseName(inp) \o <<Dot>> \o fmt)

\* the document command of each variant and whether exec() bounds it
DocCommand(v) == IF v = "cjs" THEN "soffice" ELSE "libreoffice"

HasExecTimeout(v) == v \in {"cjs", "p0"}

Installed(command) ==
  ExecSucceeds(command, ffmpegInstalled, libreofficeInstalled, sofficeInstalled)

\* server.cjs DocumentConverter: `which soffice || which libreoffice`
WhichSucceeds == sofficeInstalled \/ libreofficeInstalled

\* whether request j's document command is started and runs as a process
DocProcessRuns(v) ==
  IF v = "cjs" THEN WhichSucceeds /\ Installed(DocCommand(v))
  ELSE Installed(DocCommand(v))

\* how the backend awaited by a request can end now; exec() kills a
\* document process that has run for the timeout, and then that is the end
Outcomes(v, rec) ==
  CASE rec.tool = "sharp"  -> SharpOutcomes(v, rec.outPath)
    [] rec.tool = "ffmpeg" -> FfmpegOutcomes(v, rec.outPath)
    [] rec.tool = "libreoffice" ->
         IF HasExecTimeout(v) /\ DocProcessRuns(v) /\ rec.elapsed >= ExecTimeoutMs
         THEN {"killed"}
         ELSE LibreOfficeOutcomes(DocProcessRuns(v))
    [] OTHER -> {}

\* how the promise around an ffmpeg command settles on its terminal event
\* in part_000 and part_001: resolve on 'end', reject on 'error'
MediaSettles(o) == IF o = "end" THEN "resolved" ELSE "rejected"

(* ---------------------- updates of a job's record ------------------- *)

\* the request is answered with response r while the files f are on disk
Answer(rec, j, r, f) == [rec EXCEPT !.resp = r, !.atResp = JobFiles(f, j)]

Finish(rec) == [rec EXCEPT !.pc = "done", !.elapsed = 0, !.client = "closed"]

\* a cleanup deletes the paths of P: a request whose sharp or ffmpeg run
\* writes to one of them may have lost the output it had written so far
MarkRemoved(rec, P) ==
  IF rec.pc = "running" /\ rec.tool \in {"sharp", "ffmpeg"} /\ rec.outPath \in P
  THEN [rec EXCEPT !.outRemoved = TRUE] ELSE rec

\* the jobs after a step of request j that leaves it as rec and deletes the
\* paths of P
WithRemoved(j, rec, P) ==
  [i \in Jobs |-> IF i = j THEN rec ELSE MarkRemoved(job[i], P)]

\* whether the output sharp or ffmpeg wrote for request j is missing when
\* its promise settles: it can be only if its path was deleted meanwhile
OutputGone(j) == IF job[j].outRemoved THEN BOOLEAN ELSE {FALSE}

(* ========================= upload.single('file') ==================== *)

\* the multer middleware of POST /api/convert meets a file part over the
\* limit: it removes what it stored of the file and passes the error to
\* next(); the route handler is not called
UploadRejected(j, r) ==
  /\ ~crashed /\ job[j].pc = "idle"
  /\ LimitExceeded(variant, r)
  /\ job' = [job EXCEPT ![j] =
               Finish(Answer([job[j] EXCEPT !.req = r], j,
                             ErrorHandler(variant, "File too large"), fs))]
  /\ UNCHANGED <<variant, unlinkFails, envVars, clsVars, fmtVars, fs, tempDirs, now, crashed>>

(* =========================== src/server.cjs ========================= *)

\* ImageConverter.convert / MediaConverter.convert:
\* inputPath.replace(path.extname(inputPath), `.${outputFormat.toLowerCase()}`)
ReplaceExt_cjs(inputPath, outputFormat) ==
  replace(inputPath, extname(inputPath), <<Dot>> \o toLowerCase(outputFormat))

\* ImageConverter.convert: the switch on outputFormat.toUpperCase() has a case
ImageCase_cjs(outputFormat) ==
  toUpperCase(outputFormat) \in
    {toUpperCase(x) : x \in {png, jpg, jpeg, webp, gif, bmp, tiff}}

\* DocumentConverter.convert: outputPath
DocOutputPath_cjs(inputPath, outputFormat) ==
  join(dirname(inputPath),
       parseName(inputPath) \o <<Dot>> \o toLowerCase(outputFormat))

\* DocumentConverter.convert: noteOutputPath
DocNotePath_cjs(inputPath) ==
  join(dirname(inputPath), parseName(inputPath) \o conversion_note \o <<Dot>> \o txt)

\* MediaConverter.convert: noteOutputPath
MediaNotePath_cjs(inputPath) ==
  replace(inputPath, extname(inputPath), conversion_note \o <<Dot>> \o txt)

\* the download file name: `${path.parse(originalname).name}.${outputFormat.toLowerCase()}`
OutputFileName_cjs(r) ==
  parseName(r.originalname) \o <<Dot>> \o toLowerCase(r.outputFormat)

\* catch (conversionError): the input is unlinked, then the 500 is sent;
\* unlinkSync is not guarded there, so when it throws the outer catch
\* (lines 259-265) answers with the message of that error
Catch_cjs(rec, j, f, message) ==
  LET f2 == TryUnlink(f, {rec.inPath})
  IN [f   |-> f2,
      rec |-> Finish(Answer([rec EXCEPT !.cleanups = @ + 1], j,
                            IF unlinkThrows(f, {rec.inPath})
                            THEN Json(500, UnlinkError, None)
                            ELSE Json(500, message, None), f2))]

\* the output path returned by the converter exists: res.download starts
Send_cjs(rec, j, f, outputPath) ==
  [f   |-> f,
   rec |-> Answer([rec EXCEPT !.pc = "sending", !.elapsed = 0, !.xfer = "sending",
                              !.outPath = outputPath], j,
                  Download(f, outputPath, OutputFileName_cjs(rec.req)), f)]

\* lines 221-229: existsSync(outputPath), then the download or the throw
Deliver_cjs(rec, j, f, outputPath) ==
  IF existsSync(f, outputPath) THEN Send_cjs(rec, j, f, outputPath)
  ELSE Catch_cjs(rec, j, f, "Conversion failed: Conversion failed - output file not created")

\* app.post('/api/convert'), up to the first await
Convert_cjs(j, r) ==
  /\ variant = "cjs" /\ ~crashed /\ job[j].pc = "idle"
  /\ ~LimitExceeded("cjs", r)
  /\ LET inputPath == multerPath("cjs", j, r.originalname)
         f1  == IF r.file THEN Put(fs, inputPath, Content(j, "upload")) ELSE fs
         rec == [job[j] EXCEPT !.req = r,
                               !.inPath = IF r.file THEN inputPath ELSE <<>>]
         category == getFileCategory_cjs(r.originalname)
         st ==
           IF ~r.file THEN
             [f |-> f1, rec |-> Finish(Answer(rec, j, Json(400, "No file uploaded", None), f1))]
           ELSE IF r.outputFormat = <<>> THEN
             [f |-> f1, rec |-> Finish(Answer(rec, j, Json(400, "Output format not specified", None), f1))]
           ELSE IF category = "images" THEN
             IF ImageCase_cjs(r.outputFormat)
             THEN [f |-> f1, rec |-> [rec EXCEPT !.pc = "running", !.invoked = @ + 1, !.tool = "sharp",
                                         !.outPath = ReplaceExt_cjs(inputPath, r.outputFormat)]]
             ELSE Catch_cjs(rec, j, f1, "Conversion failed: Unsupported image format")
           ELSE IF category = "documents" THEN
             [f |-> f1, rec |-> [rec EXCEPT !.pc = "running", !.invoked = @ + 1, !.tool = "libreoffice",
                                    !.outPath = DocOutputPath_cjs(inputPath, r.outputFormat)]]
           ELSE
             [f |-> f1, rec |-> [rec EXCEPT !.pc = "running", !.invoked = @ + 1, !.tool = "ffmpeg",
                                    !.outPath = ReplaceExt_cjs(inputPath, r.outputFormat)]]
     IN fs' = st.f /\ job' = [job EXCEPT ![j] = st.rec]
  /\ UNCHANGED <<variant, unlinkFails, envVars, clsVars, fmtVars, tempDirs, now, crashed>>

\* DocumentConverter.convert after its awaits: the converted file, or the
\* fallback of the catch block (a note written as TXT output or note file)
DocumentDone_cjs(rec, j, o) ==
  LET outputPath == rec.outPath
      fmt        == rec.req.outputFormat
      written    == IF WhichSucceeds /\ o = "ok"
                    THEN Put(fs, LibreOfficeOutput(rec.inPath, dirname(rec.inPath),
                                                   toLowerCase(fmt)),
                             Content(j, "artifact"))
                    ELSE fs
  IN IF WhichSucceeds /\ o \in {"ok", "nooutput"} /\ existsSync(written, outputPath)
     THEN Deliver_cjs(rec, j, written, outputPath)
     ELSE IF toUpperCase(fmt) = toUpperCase(txt)
     THEN Deliver_cjs(rec, j, Put(written, outputPath, Content(j, "note")), outputPath)
     ELSE Deliver_cjs(rec, j, Put(written, DocNotePath_cjs(rec.inPath), Content(j, "note")),
                      DocNotePath_cjs(rec.inPath))

\* ImageConverter.convert after `await ... toFile(outputPath)`
ImageDone_cjs(rec, j, o) ==
  IF o = "ok"
  THEN Deliver_cjs(rec, j, Put(fs, rec.outPath, Content(j, "artifact")), rec.outPath)
  ELSE Catch_cjs(rec, j, fs, "Conversion failed: sharp diagnostic")

\* the backend of request j ends with outcome o and the handler resumes
BackendDone_cjs(j, o) ==
  /\ variant = "cjs" /\ ~crashed /\ job[j].pc = "running"
  /\ job[j].tool \in {"sharp", "libreoffice"}
  /\ o \in Outcomes("cjs", job[j])
  /\ LET rec == [job[j] EXCEPT !.outcome = o]
         st  == IF rec.tool = "sharp" THEN ImageDone_cjs(rec, j, o)
                ELSE DocumentDone_cjs(rec, j, o)
     IN fs' = st.f /\ job' = [job EXCEPT ![j] = st.rec]
  /\ UNCHANGED <<variant, unlinkFails, envVars, clsVars, fmtVars, tempDirs, now, crashed>>

\* MediaConverter.convert: the 'end' listener resolves with outputPath; the
\* 'error' listener writes the note file and resolves with its path, and
\* when writeFileSync throws there the exception leaves the listener: it is
\* uncaught, the promise never settles and the process dies
MediaDone_cjs(j, o) ==
  /\ variant = "cjs" /\ ~crashed /\ job[j].pc = "running"
  /\ job[j].tool = "ffmpeg"
  /\ o \in Outcomes("cjs", job[j])
  /\ LET rec0 == [job[j] EXCEPT !.outcome = o]
         rec  == [rec0 EXCEPT !.adapter = "resolved"]
         note == MediaNotePath_cjs(rec.inPath)
         part == IF o = "error_partial"
                 THEN Put(fs, rec.outPath, Content(j, "partial")) ELSE fs
     IN IF o = "end" THEN
          LET st == Deliver_cjs(rec, j, Put(fs, rec.outPath, Content(j, "artifact")),
                                rec.outPath)
          IN fs' = st.f /\ job' = [job EXCEPT ![j] = st.rec] /\ crashed' = crashed
        ELSE IF writeOk("cjs", note) THEN
          LET st == Deliver_cjs(rec, j, Put(part, note, Content(j, "note")), note)
          IN fs' = st.f /\ job' = [job EXCEPT ![j] = st.rec] /\ crashed' = crashed
        ELSE
          /\ fs' = part
          /\ job' = [job EXCEPT ![j] = [rec0 EXCEPT !.pc = "lost", !.elapsed = 0]]
          /\ crashed' = TRUE
  /\ UNCHANGED <<variant, unlinkFails, envVars, clsVars, fmtVars, tempDirs, now>>

\* the res.download callback: the cleanup is put on a 5000 ms timer
DownloadCallback_cjs(j, err) ==
  /\ variant = "cjs" /\ ~crashed /\ job[j].pc = "sending"
  /\ job[j].client = "gone" => err
  /\ job' = [job EXCEPT ![j] = [@ EXCEPT !.pc = "timer", !.client = "closed",
                                         !.xfer = IF err THEN "err" ELSE "ok"]]
  /\ UNCHANGED <<variant, unlinkFails, envVars, clsVars, fmtVars, fs, tempDirs, now, crashed>>

\* the setTimeout callback: input and output are unlinked if they exist
CleanupTimer_cjs(j) ==
  /\ variant = "cjs" /\ ~crashed /\ job[j].pc = "timer"
  /\ fs' = TryUnlink(fs, {job[j].inPath, job[j].outPath})
  /\ job' = [job EXCEPT ![j] = [@ EXCEPT !.pc = "done", !.cleanups = @ + 1]]
  /\ UNCHANGED <<variant, unlinkFails, envVars, clsVars, fmtVars, tempDirs, now, crashed>>

(* ======================== src/unnamed/part_000 ====================== *)

\* const inputExt = path.extname(originalname).toLowerCase().slice(1)
InputExt_p0(r) == slice(toLowerCase(extname(r.originalname)), 1)

\* const outputFileName = `${path.parse(originalname).name}.${outputFormat}`
OutputFileName_p0(r) == parseName(r.originalname) \o <<Dot>> \o r.outputFormat

\* path.join(uploadsDir, `converted_${Date.now()}_${outputFileName}`)
OutputPath_p0(r, t) ==
  join(uploadsDir, converted_ \o <<ToString(t), "_">> \o OutputFileName_p0(r))

ImageList_p0 == <<jpg, jpeg, png, webp, tiff, bmp>>

MediaList_p0 == <<mp4, avi, mov, wmv, flv, mp3, wav, ogg, aac, m4a>>

DocList_p0 == <<pdf, doc, docx, xls, xlsx, ppt, pptx, odt, ods, odp, rtf, txt>>

\* the branch of the if / else-if chain a request takes
Branch_p0(r) ==
  IF includes(ImageList_p0, InputExt_p0(r)) /\ includes(ImageList_p0, r.outputFormat)
  THEN "sharp"
  ELSE IF includes(MediaList_p0, InputExt_p0(r)) THEN "ffmpeg"
  ELSE IF includes(DocList_p0, InputExt_p0(r)) THEN "libreoffice"
  ELSE "unsupported"

\* catch (error): every path of tempFiles that exists is unlinked, then the
\* 500 is sent
Catch_p0(rec, j, f, details) ==
  LET f2 == TryUnlink(f, {rec.inPath, rec.outPath})
  IN [f   |-> f2,
      rec |-> Finish(Answer([rec EXCEPT !.cleanups = @ + 1], j,
                            Json(500, "Conversion failed", details), f2))]

\* the output path a step of request j unlinked: the step ran the forEach
\* over tempFiles (and the deletion was not refused)
Removed_p0(j, rec) ==
  IF rec.cleanups > job[j].cleanups /\ ~unlinkFails THEN {rec.outPath} ELSE {}

\* Deliver_p0 with the unlinking of tempFiles placed after the call of
\* res.download instead of inside its callback
Deliver_p0_CleanupAtSend(rec, j, f) ==
  IF existsSync(f, rec.outPath)
  THEN [f   |-> TryUnlink(f, {rec.inPath, rec.outPath}),
        rec |-> Answer([rec EXCEPT !.pc = "sending", !.elapsed = 0, !.xfer = "sending",
                                   !.cleanups = @ + 1],
                       j, Download(f, rec.outPath, OutputFileName_p0(rec.req)), f)]
  ELSE Catch_p0(rec, j, f, "Conversion completed but output file not found")

\* lines 242-248: existsSync(outputPath), then res.download or the throw
Deliver_p0(rec, j, f) ==
  IF existsSync(f, rec.outPath)
  THEN [f   |-> f,
        rec |-> Answer([rec EXCEPT !.pc = "sending", !.elapsed = 0, !.xfer = "sending"],
                       j, Download(f, rec.outPath, OutputFileName_p0(rec.req)), f)]
  ELSE Catch_p0(rec, j, f, "Conversion completed but output file not found")

\* how fs.copyFileSync(inputPath, tempInputPath) can end for the adapter a
\* request is handed to: it returns, or it throws (no space, I/O error)
CopyOutcomes(tool) == IF tool = "libreoffice" THEN {"copied", "threw"} ELSE {"copied"}

\* app.post('/api/convert'), up to the first await; convertWithLibreOffice
\* creates temp/<uuid> and copies the input into it before exec(); when the
\* copy throws the promise is rejected with temp/<uuid> left in place
Convert_p0(j, r) ==
  /\ variant = "p0" /\ ~crashed /\ job[j].pc = "idle"
  /\ ~LimitExceeded("p0", r)
  /\ LET filePath == multerPath("p0", j, r.originalname)
         f1  == IF r.file THEN Put(fs, filePath, Content(j, "upload")) ELSE fs
         rec == [job[j] EXCEPT !.req = r,
                               !.inPath = IF r.file THEN filePath ELSE <<>>]
         run == [rec EXCEPT !.pc = "running", !.invoked = @ + 1, !.tool = Branch_p0(r),
                            !.outPath = OutputPath_p0(r, now)]
     IN IF ~r.file THEN
          /\ fs' = f1 /\ tempDirs' = tempDirs
          /\ job' = [job EXCEPT ![j] =
                       Finish(Answer(rec, j, Json(400, "No file uploaded", None), f1))]
        ELSE IF r.outputFormat = <<>> THEN
          /\ fs' = f1 /\ tempDirs' = tempDirs
          /\ job' = [job EXCEPT ![j] =
                       Finish(Answer(rec, j, Json(400, "Output format not specified", None), f1))]
        ELSE IF Branch_p0(r) = "unsupported" THEN
          LET st == Catch_p0([rec EXCEPT !.outPath = OutputPath_p0(r, now)], j, f1,
                             "Unsupported conversion")
          IN fs' = st.f /\ job' = WithRemoved(j, st.rec, Removed_p0(j, st.rec)) /\ tempDirs' = tempDirs
        ELSE
          \E c \in CopyOutcomes(Branch_p0(r)) :
            IF c = "threw" THEN
              LET st == Catch_p0([run EXCEPT !.outcome = "copy_failed",
                                             !.adapter = "rejected"], j, f1,
                                 "ENOSPC: no space left on device, copyfile")
              IN /\ fs' = st.f /\ job' = WithRemoved(j, st.rec, Removed_p0(j, st.rec))
                 /\ tempDirs' = tempDirs \cup {j}
            ELSE
              /\ fs' = f1
              /\ job' = [job EXCEPT ![j] = run]
              /\ tempDirs' = IF Branch_p0(r) = "libreoffice" THEN tempDirs \cup {j}
                             ELSE tempDirs
  /\ UNCHANGED <<variant, unlinkFails, envVars, clsVars, fmtVars, now, crashed>>

\* Date.now() moves on between two requests
AdvanceClock ==
  /\ variant = "p0" /\ ~crashed /\ now < MaxNow
  /\ now' = now + 1
  /\ UNCHANGED <<variant, unlinkFails, envVars, clsVars, fmtVars, job, fs, tempDirs, crashed>>

\* convertWithLibreOffice, the exec callback after a zero exit: the ways it
\* can settle. expectedOutputPath if it exists, else the first entry of
\* readdirSync(outputDir) whose name starts with the base name (the order
\* of the entries is the file system's), else the rejection
convertWithLibreOffice_find(f, inputPath, outputDir, outputFormat) ==
  LET baseNameWithoutExt == parseName(basename(inputPath))
      expectedOutputPath == join(outputDir, baseNameWithoutExt \o <<Dot>> \o outputFormat)
      files == {p \in DOMAIN f : dirname(p) = outputDir}
      hits  == {p \in files : startsWith(basename(p), baseNameWithoutExt)}
  IN IF existsSync(f, expectedOutputPath)
     THEN {[adapter |-> "resolved", found |-> expectedOutputPath]}
     ELSE IF hits # {}
     THEN {[adapter |-> "resolved", found |-> p] : p \in hits}
     ELSE {[adapter |-> "rejected", found |-> <<>>]}

\* lines 225-236: the handler after `await convertWithLibreOffice(...)`; the
\* resolved path is not used, the file is looked for under the original name
AfterLibreOffice_p0(rec, j, f) ==
  LET libreOfficeOutputPath ==
        join(uploadsDir, parseName(rec.req.originalname) \o <<Dot>> \o rec.req.outputFormat)
  IN IF existsSync(f, libreOfficeOutputPath)
     THEN IF existsSync(f, rec.outPath)
          THEN Catch_p0(rec, j, f, "dest already exists.")
          ELSE Deliver_p0(rec, j, Move(f, libreOfficeOutputPath, rec.outPath))
     ELSE Catch_p0(rec, j, f, "LibreOffice conversion failed - output file not found")

\* the sharp or ffmpeg promise of request j settles and the handler resumes;
\* the output they wrote is on disk unless it was unlinked under them
BackendDone_p0(j, o) ==
  /\ variant = "p0" /\ ~crashed /\ job[j].pc = "running"
  /\ job[j].tool \in {"sharp", "ffmpeg"}
  /\ o \in Outcomes("p0", job[j])
  /\ \E gone \in (IF o \in {"ok", "end"} THEN OutputGone(j) ELSE {FALSE}) :
       LET rec == [job[j] EXCEPT !.outcome = o, !.outRemoved = FALSE,
                                 !.adapter = IF job[j].tool = "ffmpeg"
                                             THEN MediaSettles(o) ELSE @]
           st  == IF o \in {"ok", "end"}
                  THEN Deliver_p0(rec, j, IF gone THEN fs
                                          ELSE Put(fs, rec.outPath, Content(j, "artifact")))
                  ELSE IF o = "error_partial"
                  THEN Catch_p0(rec, j, Put(fs, rec.outPath, Content(j, "partial")),
                                "ffmpeg diagnostic")
                  ELSE Catch_p0(rec, j, fs, IF rec.tool = "sharp" THEN "sharp diagnostic"
                                            ELSE "ffmpeg diagnostic")
       IN fs' = st.f /\ job' = WithRemoved(j, st.rec, Removed_p0(j, st.rec))
  /\ UNCHANGED <<variant, unlinkFails, envVars, clsVars, fmtVars, tempDirs, now, crashed>>

\* convertWithLibreOffice: the exec callback (exit, failure to start, or
\* the kill at the timeout), then the handler
LibreOfficeDone_p0(j, o) ==
  /\ variant = "p0" /\ ~crashed /\ job[j].pc = "running"
  /\ job[j].tool = "libreoffice"
  /\ o \in Outcomes("p0", job[j])
  /\ tempDirs' = tempDirs \ {j}
  /\ LET rec == [job[j] EXCEPT !.outcome = o]
         tempInputPath == join(join(tempRoot, <<j>>), basename(rec.inPath))
         written == IF o = "ok"
                    THEN Put(fs, LibreOfficeOutput(tempInputPath, uploadsDir,
                                                   rec.req.outputFormat),
                             Content(j, "artifact"))
                    ELSE fs
     IN IF o \in {"error", "killed"} THEN
          LET st == Catch_p0([rec EXCEPT !.adapter = "rejected"], j, fs,
                             "LibreOffice conversion failed: exec diagnostic")
          IN fs' = st.f /\ job' = WithRemoved(j, st.rec, Removed_p0(j, st.rec))
        ELSE
          \E a \in convertWithLibreOffice_find(written, rec.inPath, uploadsDir,
                                               rec.req.outputFormat) :
            LET rec2 == [rec EXCEPT !.adapter = a.adapter, !.found = a.found]
                st   == IF a.adapter = "resolved"
                        THEN AfterLibreOffice_p0(rec2, j, written)
                        ELSE Catch_p0(rec2, j, written,
                               "LibreOffice conversion completed but output file not found")
            IN fs' = st.f /\ job' = WithRemoved(j, st.rec, Removed_p0(j, st.rec))
  /\ UNCHANGED <<variant, unlinkFails, envVars, clsVars, fmtVars, now, crashed>>

\* the res.download callback: every path of tempFiles that exists is unlinked
DownloadCallback_p0(j, err) ==
  /\ variant = "p0" /\ ~crashed /\ job[j].pc = "sending"
  /\ job[j].client = "gone" => err
  /\ fs' = TryUnlink(fs, {job[j].inPath, job[j].outPath})
  /\ LET rec == [job[j] EXCEPT !.pc = "done", !.cleanups = @ + 1, !.client = "closed",
                               !.xfer = IF err THEN "err" ELSE "ok"]
     IN job' = WithRemoved(j, rec, Removed_p0(j, rec))
  /\ UNCHANGED <<variant, unlinkFails, envVars, clsVars, fmtVars, tempDirs, now, crashed>>

(* ======================== src/unnamed/part_001 ====================== *)

\* `${path.basename(originalname, path.extname(originalname))}.${outputFormat}`
OutputFileName_p1(r) ==
  basenameExt(r.originalname, extname(r.originalname)) \o <<Dot>> \o r.outputFormat

\* const outputPath = path.join(outputsDir, outputFileName)
OutputPath_p1(r) == join(outputsDir, OutputFileName_p1(r))

\* the adapter the switch on the category selects
Tool_p1(category) ==
  CASE category = "image"    -> "sharp"
    [] category \in {"audio", "video"} -> "ffmpeg"
    [] category = "document" -> "libreoffice"

\* convertDocument: generatedFile, the file LibreOffice is expected to write
GeneratedFile_p1(inputPath, outputPath, format) ==
  join(dirname(outputPath),
       basenameExt(inputPath, extname(inputPath)) \o <<Dot>> \o toLowerCase(format))

\* Catch_p1 calling the converter a second time after a failure instead of
\* answering
Catch_p1_Retry(rec, j, f, details) ==
  IF rec.invoked < 2
  THEN [f   |-> f,
        rec |-> [rec EXCEPT !.pc = "running", !.invoked = @ + 1, !.outcome = None]]
  ELSE [f   |-> f,
        rec |-> Finish(Answer([rec EXCEPT !.cleanups = @ + 1,
                                          !.pendingRm = @ \cup {rec.inPath}], j,
                              Json(500, "Conversion failed", details), f))]

\* catch (conversionError): fs.remove(inputPath) is started and not awaited,
\* then the 500 is sent
Catch_p1(rec, j, f, details) ==
  [f   |-> f,
   rec |-> Finish(Answer([rec EXCEPT !.cleanups = @ + 1,
                                     !.pendingRm = @ \cup {rec.inPath}], j,
                         Json(500, "Conversion failed", details), f))]

\* Deliver_p1 without the existsSync check: res.download is called whether
\* or not outputPath is on disk
Deliver_p1_Unchecked(rec, j, f) ==
  LET g == IF existsSync(f, rec.outPath) THEN f ELSE Put(f, rec.outPath, NoContent)
  IN [f   |-> f,
      rec |-> Answer([rec EXCEPT !.pc = "sending", !.elapsed = 0, !.xfer = "sending"],
                     j, Download(g, rec.outPath, OutputFileName_p1(rec.req)), f)]

\* lines 208-214: existsSync(outputPath), then res.download or the throw
Deliver_p1(rec, j, f) ==
  IF existsSync(f, rec.outPath)
  THEN [f   |-> f,
        rec |-> Answer([rec EXCEPT !.pc = "sending", !.elapsed = 0, !.xfer = "sending"],
                       j, Download(f, rec.outPath, OutputFileName_p1(rec.req)), f)]
  ELSE Catch_p1(rec, j, f, "Conversion failed - output file not created")

\* Convert_p1 with the two validation checks in the other order
Convert_p1_FormatFirst(j, r) ==
  /\ variant = "p1" /\ ~crashed /\ job[j].pc = "idle"
  /\ ~LimitExceeded("p1", r)
  /\ LET inputPath == multerPath("p1", j, r.originalname)
         f1  == IF r.file THEN Put(fs, inputPath, Content(j, "upload")) ELSE fs
         rec == [job[j] EXCEPT !.req = r,
                               !.inPath = IF r.file THEN inputPath ELSE <<>>]
         category == getFileCategory_p1(r.originalname)
     IN /\ fs' = f1
        /\ job' = [job EXCEPT ![j] =
             IF r.outputFormat = <<>>
             THEN Finish(Answer(rec, j, Json(400, "Output format not specified", None), f1))
             ELSE IF ~r.file
             THEN Finish(Answer(rec, j, Json(400, "No file uploaded", None), f1))
             ELSE [rec EXCEPT !.pc = "running", !.invoked = @ + 1, !.tool = Tool_p1(category),
                              !.outPath = OutputPath_p1(r)]]
  /\ UNCHANGED <<variant, unlinkFails, envVars, clsVars, fmtVars, tempDirs, now, crashed>>

\* Convert_p1 on a server whose converters block the event loop: no request
\* is accepted while another one's backend runs
Convert_p1_Blocking(j, r) ==
  /\ variant = "p1" /\ ~crashed /\ job[j].pc = "idle"
  /\ \A k \in Jobs : job[k].pc # "running"
  /\ ~LimitExceeded("p1", r)
  /\ LET inputPath == multerPath("p1", j, r.originalname)
         f1  == IF r.file THEN Put(fs, inputPath, Content(j, "upload")) ELSE fs
         rec == [job[j] EXCEPT !.req = r,
                               !.inPath = IF r.file THEN inputPath ELSE <<>>]
         category == getFileCategory_p1(r.originalname)
     IN /\ fs' = f1
        /\ job' = [job EXCEPT ![j] =
             IF ~r.file
             THEN Finish(Answer(rec, j, Json(400, "No file uploaded", None), f1))
             ELSE IF r.outputFormat = <<>>
             THEN Finish(Answer(rec, j, Json(400, "Output format not specified", None), f1))
             ELSE [rec EXCEPT !.pc = "running", !.invoked = @ + 1, !.tool = Tool_p1(category),
                              !.outPath = OutputPath_p1(r)]]
  /\ UNCHANGED <<variant, unlinkFails, envVars, clsVars, fmtVars, tempDirs, now, crashed>>

\* app.post('/api/convert'), up to the first await
Convert_p1(j, r) ==
  /\ variant = "p1" /\ ~crashed /\ job[j].pc = "idle"
  /\ ~LimitExceeded("p1", r)
  /\ LET inputPath == multerPath("p1", j, r.originalname)
         f1  == IF r.file THEN Put(fs, inputPath, Content(j, "upload")) ELSE fs
         rec == [job[j] EXCEPT !.req = r,
                               !.inPath = IF r.file THEN inputPath ELSE <<>>]
         category == getFileCategory_p1(r.originalname)
     IN /\ fs' = f1
        /\ job' = [job EXCEPT ![j] =
             IF ~r.file
             THEN Finish(Answer(rec, j, Json(400, "No file uploaded", None), f1))
             ELSE IF r.outputFormat = <<>>
             THEN Finish(Answer(rec, j, Json(400, "Output format not specified", None), f1))
             ELSE [rec EXCEPT !.pc = "running", !.invoked = @ + 1, !.tool = Tool_p1(category),
                              !.outPath = OutputPath_p1(r)]]
  /\ UNCHANGED <<variant, unlinkFails, envVars, clsVars, fmtVars, tempDirs, now, crashed>>

\* the convertImage or convertMedia promise of request j settles and the
\* handler resumes; a failed ffmpeg run may leave its partial output
BackendDone_p1(j, o) ==
  /\ variant = "p1" /\ ~crashed /\ job[j].pc = "running"
  /\ job[j].tool \in {"sharp", "ffmpeg"}
  /\ o \in Outcomes("p1", job[j])
  /\ \E gone \in (IF o \in {"ok", "end"} THEN OutputGone(j) ELSE {FALSE}) :
       LET rec == [job[j] EXCEPT !.outcome = o, !.outRemoved = FALSE,
                                 !.adapter = IF job[j].tool = "ffmpeg"
                                             THEN MediaSettles(o) ELSE @]
           st  == IF o \in {"ok", "end"}
                  THEN Deliver_p1(rec, j, IF gone THEN fs
                                          ELSE Put(fs, rec.outPath, Content(j, "artifact")))
                  ELSE IF o = "error_partial"
                  THEN Catch_p1(rec, j, Put(fs, rec.outPath, Content(j, "partial")),
                                "ffmpeg diagnostic")
                  ELSE Catch_p1(rec, j, fs, IF rec.tool = "sharp" THEN "sharp diagnostic"
                                            ELSE "ffmpeg diagnostic")
       IN fs' = st.f /\ job' = [job EXCEPT ![j] = st.rec]
  /\ UNCHANGED <<variant, unlinkFails, envVars, clsVars, fmtVars, tempDirs, now, crashed>>

\* convertDocument: the 'close' listener (or 'error' when spawn fails), then
\* the handler. moveSync throws when outputPath exists already: thrown in
\* the listener, the exception is uncaught and the process dies
DocumentDone_p1(j, o) ==
  /\ variant = "p1" /\ ~crashed /\ job[j].pc = "running"
  /\ job[j].tool = "libreoffice"
  /\ o \in Outcomes("p1", job[j])
  /\ LET rec == [job[j] EXCEPT !.outcome = o]
         fmt == rec.req.outputFormat
         generatedFile == GeneratedFile_p1(rec.inPath, rec.outPath, fmt)
         written == IF o = "ok"
                    THEN Put(fs, LibreOfficeOutput(rec.inPath, dirname(rec.outPath),
                                                   toLowerCase(fmt)),
                             Content(j, "artifact"))
                    ELSE fs
     IN IF o = "error" THEN
          LET st == Catch_p1(rec, j, fs, "LibreOffice conversion failed with code")
          IN fs' = st.f /\ job' = [job EXCEPT ![j] = st.rec] /\ crashed' = crashed
        ELSE IF ~existsSync(written, generatedFile) THEN
          LET st == Catch_p1(rec, j, written, "Conversion failed - output file not found")
          IN fs' = st.f /\ job' = [job EXCEPT ![j] = st.rec] /\ crashed' = crashed
        ELSE IF existsSync(written, rec.outPath) THEN
          /\ fs' = written
          /\ job' = [job EXCEPT ![j] = [rec EXCEPT !.pc = "lost", !.elapsed = 0]]
          /\ crashed' = TRUE
        ELSE
          LET st == Deliver_p1(rec, j, Move(written, generatedFile, rec.outPath))
          IN fs' = st.f /\ job' = [job EXCEPT ![j] = st.rec] /\ crashed' = crashed
  /\ UNCHANGED <<variant, unlinkFails, envVars, clsVars, fmtVars, tempDirs, now>>

\* the res.download callback: fs.remove of the input and of the output are
\* started; neither is awaited
DownloadCallback_p1(j, err) ==
  /\ variant = "p1" /\ ~crashed /\ job[j].pc = "sending"
  /\ job[j].client = "gone" => err
  /\ job' = [job EXCEPT ![j] = [@ EXCEPT !.pc = "done", !.cleanups = @ + 1, !.client = "closed",
                                         !.xfer = IF err THEN "err" ELSE "ok",
                                         !.pendingRm = @ \cup {job[j].inPath, job[j].outPath}]]
  /\ UNCHANGED <<variant, unlinkFails, envVars, clsVars, fmtVars, fs, tempDirs, now, crashed>>

\* a started fs.remove(p) completes: p is gone whatever it held
RemoveDone_p1(j, p) ==
  /\ variant = "p1" /\ ~crashed
  /\ p \in job[j].pendingRm
  /\ fs' = TryUnlink(fs, {p})
  /\ job' = WithRemoved(j, [job[j] EXCEPT !.pendingRm = @ \ {p}],
                        IF unlinkFails THEN {} ELSE {p})
  /\ UNCHANGED <<variant, unlinkFails, envVars, clsVars, fmtVars, tempDirs, now, crashed>>

(* ------------------------------ the client -------------------------- *)

\* the client closes its connection while its conversion runs in a spawned
\* process; no handler listens for the request's 'close' or 'aborted', so
\* nothing is done: the process runs on and the handler resumes when it
\* ends, its download then failing
ClientDisconnects(j) ==
  /\ ~crashed /\ job[j].pc = "running" /\ job[j].tool \in {"ffmpeg", "libreoffice"}
  /\ job[j].client = "connected"
  /\ job' = [job EXCEPT ![j] = [@ EXCEPT !.client = "gone"]]
  /\ UNCHANGED <<variant, unlinkFails, envVars, clsVars, fmtVars, fs, tempDirs, now, crashed>>

(* ---------------------- the spawned document process ---------------- *)

\* a spawned document process that has not exited runs for another TickMs;
\* under exec's timeout it does not run past the kill
Tick(j) ==
  /\ ~crashed /\ job[j].pc = "running" /\ job[j].tool = "libreoffice"
  /\ DocProcessRuns(variant)
  /\ job[j].elapsed < MaxElapsedMs
  /\ HasExecTimeout(variant) => job[j].elapsed < ExecTimeoutMs
  /\ job' = [job EXCEPT ![j] = [@ EXCEPT !.elapsed = @ + TickMs]]
  /\ UNCHANGED <<variant, unlinkFails, envVars, clsVars, fmtVars, fs, tempDirs, now, crashed>>

(* --------------------------- classification ------------------------- *)

\* the extensions a file name is built from: every extension of the two
\* variants' tables, and some that are in none
KnownExts ==
  {png, jpg, jpeg, webp, gif, bmp, tiff, svg, ico, pdf, doc, docx, txt, rtf,
   html, odt, pages, mp3, wav, flac, aac, ogg, m4a, wma, mp4, avi, mov, mkv,
   webm, wmv, flv}

OtherExts == {xyz, csv, <<"p","n">>, <<"p","n","g","x">>, <<>>}

\* an extension as written by an uploader: lower case, upper case, or with
\* its first letter in upper case
Spellings(e) ==
  {e, toUpperCase(e),
   [i \in DOMAIN e |-> IF i = 1 THEN UpperChar(e[i]) ELSE e[i]]}

\* file names: with an extension in some spelling, without a dot, with a
\* leading dot only, and with two dots
FileNames ==
  LET exts == UNION {Spellings(e) : e \in KnownExts \cup OtherExts}
  IN {<<"a">> \o <<Dot>> \o e : e \in exts}
       \cup {e : e \in exts}
       \cup {<<Dot>> \o e : e \in exts}
       \cup {<<"a", Dot, "b", Dot>> \o e : e \in exts}

\* getFileCategory(name) is called
Classify(name) ==
  /\ clsName' = name
  /\ clsOut' = getFileCategory(variant, name)
  /\ UNCHANGED <<variant, unlinkFails, envVars, fmtVars, jobVars>>

(* ------------------------ GET /api/formats/:inputFormat ------------- *)

\* the :inputFormat parameters asked: every key of formatMap, names that are
\* not keys, and keys in other spellings
FormatQueries ==
  {jpg, jpeg, png, webp, tiff, bmp, mp4, avi, mov, wmv, flv, mp3, wav, ogg, aac,
   m4a, pdf, doc, docx, xls, xlsx, ppt, pptx, odt, ods, odp, rtf, txt}
    \cup {gif, mkv, flac, csv, xyz, <<>>}
    \cup UNION {Spellings(e) : e \in {png, mp4, mp3, docx}}

\* app.get('/api/formats/:inputFormat'): the capabilities are probed, the
\* map is built from them and looked up
GetFormats(inputFormat) ==
  /\ variant = "p0"
  /\ LET capabilities ==
           checkCapabilities(ffmpegInstalled, libreofficeInstalled, sofficeInstalled)
     IN /\ fmtQuery' = inputFormat
        /\ fmtCaps' = capabilities
        /\ fmtOut' = supportedFormats(inputFormat, capabilities)
  /\ UNCHANGED <<variant, unlinkFails, envVars, clsVars, jobVars, probe>>

\* between two requests a tool is installed or removed
EnvironmentChanges(ff, lo, so) ==
  /\ <<ff, lo, so>> # envVars
  /\ ffmpegInstalled' = ff
  /\ libreofficeInstalled' = lo
  /\ sofficeInstalled' = so
  /\ UNCHANGED <<variant, unlinkFails, clsVars, fmtVars, jobVars>>

(* ------------------ GET /api/health, GET /api/capabilities ---------- *)

\* JSON.stringify of a boolean of the response body
JsonValue(b) == IF b THEN "true" ELSE "false"

\* the capabilities of a response body by category, as JSON values
Caps(image, media, document) ==
  [image |-> image, media |-> media, document |-> document]

\* server.cjs app.get('/api/capabilities'): the shell runs
\* `which soffice || which libreoffice`, then `which ffmpeg`
capabilities_cjs(ff, lo, so) ==
  [ sharp       |-> TRUE,
    libreoffice |-> IF ExecSucceeds("soffice", ff, lo, so) THEN TRUE
                    ELSE ExecSucceeds("libreoffice", ff, lo, so),
    ffmpeg      |-> ExecSucceeds("ffmpeg", ff, lo, so) ]

\* the capabilities object of a response, by category
CapsOf(capabilities) ==
  Caps(JsonValue(capabilities.sharp), JsonValue(capabilities.ffmpeg),
       JsonValue(capabilities.libreoffice))

\* the body app.get('/api/health') answers with in each variant
HealthBody(v, ff, lo, so) ==
  CASE v = "p0"  -> CapsOf(checkCapabilities(ff, lo, so))
    [] v = "p1"  -> Caps(JsonValue(TRUE), JsonValue(TRUE), JsonValue(TRUE))
    [] v = "cjs" -> Caps("Sharp (High Quality)", "FFmpeg (if installed)",
                         "LibreOffice (if installed)")

\* the answer to a probe request: the endpoint asked, the environment the
\* request ran in, the status and the capabilities of the body
ProbeAnswer(endpoint, status, caps) ==
  [endpoint |-> endpoint, status |-> status, caps |-> caps,
   env |-> [ff |-> ffmpegInstalled, lo |-> libreofficeInstalled,
            so |-> sofficeInstalled]]

NoProbe ==
  [endpoint |-> None, status |-> 0, caps |-> Caps(None, None, None),
   env |-> [ff |-> FALSE, lo |-> FALSE, so |-> FALSE]]

\* app.get('/api/health')
GetHealth ==
  /\ probe' = ProbeAnswer("health", 200,
                          HealthBody(variant, ffmpegInstalled, libreofficeInstalled,
                                     sofficeInstalled))
  /\ UNCHANGED <<variant, unlinkFails, envVars, clsVars, fmtQuery, fmtCaps, fmtOut, jobVars>>

\* app.get('/api/capabilities'); part_001 has no such route and express
\* answers 404
GetCapabilities ==
  /\ probe' =
       CASE variant = "p0" ->
              ProbeAnswer("capabilities", 200,
                          CapsOf(checkCapabilities(ffmpegInstalled, libreofficeInstalled,
                                                   sofficeInstalled)))
         [] variant = "cjs" ->
              ProbeAnswer("capabilities", 200,
                          CapsOf(capabilities_cjs(ffmpegInstalled, libreofficeInstalled,
                                                  sofficeInstalled)))
         [] variant = "p1" ->
              ProbeAnswer("capabilities", 404, Caps(None, None, None))
  /\ UNCHANGED <<variant, unlinkFails, envVars, clsVars, fmtQuery, fmtCaps, fmtOut, jobVars>>

(* --------------------------- specifications ------------------------- *)

NoFiles == [p \in {} |-> NoContent]

NoCaps == [sharp |-> FALSE, ffmpeg |-> FALSE, libreoffice |-> FALSE]

\* nothing asked of the classifier or of the formats endpoint yet
QuietInit ==
  /\ clsName = <<>> /\ clsOut = None
  /\ fmtQuery = <<>> /\ fmtCaps = NoCaps /\ fmtOut = <<None>>
  /\ probe = NoProbe

\* no /api/convert request yet, the scratch directories empty
JobsInit ==
  /\ job = [j \in Jobs |-> IdleJob]
  /\ fs = NoFiles
  /\ tempDirs = {}
  /\ now = 0
  /\ crashed = FALSE

EnvInit ==
  /\ ffmpegInstalled \in BOOLEAN
  /\ libreofficeInstalled \in BOOLEAN
  /\ sofficeInstalled \in BOOLEAN

\* the server after start-up, in any environment
Init ==
  /\ variant \in Variants /\ EnvInit /\ QuietInit /\ JobsInit
  /\ unlinkFails = FALSE

\* a host on which every backend is installed
InitBusy ==
  /\ variant \in Variants /\ QuietInit /\ JobsInit
  /\ ffmpegInstalled = TRUE /\ libreofficeInstalled = TRUE /\ sofficeInstalled = TRUE
  /\ unlinkFails = FALSE

\* the steps of the /api/convert requests
Next ==
  \/ \E j \in Jobs, r \in Requests :
       Convert_cjs(j, r) \/ Convert_p0(j, r) \/ Convert_p1(j, r) \/ UploadRejected(j, r)
  \/ \E j \in Jobs, o \in {"ok", "end", "nooutput", "error", "error_partial", "killed"} :
       \/ BackendDone_cjs(j, o) \/ MediaDone_cjs(j, o)
       \/ BackendDone_p0(j, o) \/ LibreOfficeDone_p0(j, o)
       \/ BackendDone_p1(j, o) \/ DocumentDone_p1(j, o)
  \/ \E j \in Jobs, err \in BOOLEAN :
       DownloadCallback_cjs(j, err) \/ DownloadCallback_p0(j, err) \/ DownloadCallback_p1(j, err)
  \/ \E j \in Jobs : CleanupTimer_cjs(j) \/ Tick(j) \/ ClientDisconnects(j)
  \/ \E j \in Jobs : \E p \in job[j].pendingRm : RemoveDone_p1(j, p)
  \/ AdvanceClock

Spec == Init /\ [][Next]_vars

\* the /api/convert requests on a host where the deletion of uploads and
\* outputs is refused
InitUnlink ==
  /\ variant \in Variants /\ EnvInit /\ QuietInit /\ JobsInit
  /\ unlinkFails = TRUE

SpecUnlink == InitUnlink /\ [][Next]_vars

SpecBusy == InitBusy /\ [][Next]_vars

\* getFileCategory applied to file names (server.cjs and part_001 define it)
InitClassify ==
  /\ variant \in {"cjs", "p1"}
  /\ ffmpegInstalled = TRUE /\ libreofficeInstalled = TRUE /\ sofficeInstalled = TRUE
  /\ QuietInit /\ JobsInit /\ unlinkFails = FALSE

NextClassify == \E name \in FileNames : Classify(name)

SpecClassify == InitClassify /\ [][NextClassify]_vars

\* the formats endpoint of part_000 in a changing environment
InitQuery ==
  /\ variant = "p0" /\ EnvInit /\ QuietInit /\ JobsInit
  /\ unlinkFails = FALSE

NextQuery ==
  \/ \E q \in FormatQueries : GetFormats(q)
  \/ \E ff \in BOOLEAN, lo \in BOOLEAN, so \in BOOLEAN : EnvironmentChanges(ff, lo, so)

SpecQuery == InitQuery /\ [][NextQuery]_vars

\* the health and capabilities endpoints of the three variants in a
\* changing environment
InitProbe ==
  /\ variant \in Variants /\ EnvInit /\ QuietInit /\ JobsInit
  /\ unlinkFails = FALSE

NextProbe ==
  \/ GetHealth
  \/ GetCapabilities
  \/ \E ff \in BOOLEAN, lo \in BOOLEAN, so \in BOOLEAN : EnvironmentChanges(ff, lo, so)

SpecProbe == InitProbe /\ [][NextProbe]_vars

(* ============================== claims ============================== *)

\* the request has been answered and nothing scheduled for it is pending
Finished(j) == job[j].pc = "done" /\ job[j].pendingRm = {}

\* the request is being handled: its backend runs, its download is being
\* sent, or its cleanup timer is pending
InFlight(j) == job[j].pc \in {"running", "sending", "timer"}

\* the request was answered with the 500 of a catch block
Failed(j) == job[j].resp.kind = "json" /\ job[j].resp.status = 500

Range(s) == {s[i] : i \in DOMAIN s}

\* C1 (as claimed): once a request that uploaded a file has finished
\* (answered, and every scheduled cleanup has run), no file holding data of
\* that job, input, output or placeholder, and no temp directory of it is
\* left on disk
C1_NoScratchLeftAfterRequest ==
  \A j \in Jobs :
    (job[j].req.file /\ Finished(j)) => (JobFiles(fs, j) = {} /\ j \notin tempDirs)

\* C2 (as claimed): two requests in flight at the same time have distinct
\* input paths and distinct output paths
C2_DistinctScratchPaths ==
  \A j, k \in Jobs :
    (j # k /\ InFlight(j) /\ InFlight(k)) =>
      (job[j].inPath # job[k].inPath /\ job[j].outPath # job[k].outPath)

\* C3: for a request answered with a download, the cleanup of its files runs
\* at most once, has run only if the transfer has ended (completed or
\* errored), has run once the request is done, and the uploaded input is on
\* disk for as long as the transfer is going on
C3_CleanupOnceAfterTransfer ==
  \A j \in Jobs :
    job[j].resp.kind = "download" =>
      /\ job[j].cleanups <= 1
      /\ job[j].cleanups = 1 => job[j].xfer \in {"ok", "err"}
      /\ job[j].pc = "done" => job[j].cleanups = 1
      /\ job[j].xfer = "sending" => existsSync(fs, job[j].inPath)

\* C3 witness: a download whose transfer errored, cleaned up once
C3_Witness ==
  \E j \in Jobs :
    /\ job[j].resp.kind = "download" /\ job[j].xfer = "err"
    /\ job[j].pc = "done" /\ job[j].cleanups = 1
    /\ ~existsSync(fs, job[j].inPath)

\* C4 (as claimed): when a conversion fails, none of the job's files (input,
\* partial or backend-named output) is on disk any more at the moment the
\* error response is sent
C4_FailureCleanupBeforeResponse ==
  \A j \in Jobs : Failed(j) => job[j].atResp = {}

\* C5 (as claimed): a media conversion whose ffmpeg is installed and raises
\* its error event ends with an HTTP error carrying the diagnostic, never
\* with a download, and once finished its input is removed
C5_MediaErrorEndsFailed ==
  \A j \in Jobs :
    (/\ job[j].tool = "ffmpeg" /\ ffmpegInstalled
     /\ job[j].outcome \in {"error", "error_partial"}) =>
      /\ job[j].resp.kind = "json" /\ job[j].resp.status >= 400
      /\ job[j].resp.details = "ffmpeg diagnostic" \/ job[j].resp.error = "ffmpeg diagnostic"
      /\ Finished(j) => ~existsSync(fs, job[j].inPath)

\* C6 (as claimed): with neither libreoffice nor soffice installed, a document
\* request that has left the adapter is answered with a JSON error, no file
\* of the job other than its upload was written, and the process lives
C6_DocBackendAbsentFails ==
  \A j \in Jobs :
    (/\ job[j].tool = "libreoffice" /\ job[j].pc # "running"
     /\ ~libreofficeInstalled /\ ~sofficeInstalled) =>
      /\ job[j].resp.kind = "json" /\ job[j].resp.status >= 400
      /\ \A p \in JobFiles(fs, j) : fs[p].kind = "upload"
      /\ job[j].resp.body = NoContent
      /\ job[j].pc # "lost"

\* the support matrix for the capabilities of the environment, as
\* GET /api/formats/:inputFormat reports it for the extension of the upload
InMatrix(r) ==
  includes(supportedFormats(slice(extname(r.originalname), 1),
                            checkCapabilities(ffmpegInstalled, libreofficeInstalled,
                                              sofficeInstalled)),
           r.outputFormat)

\* C7 (as claimed): a request whose (source, output) pair is not in the
\* support matrix is never handed to a backend (part_000 and part_001)
C7_UnsupportedNeverDispatched ==
  \A j \in Jobs :
    (/\ variant \in {"p0", "p1"}
     /\ job[j].req.file /\ job[j].req.outputFormat # <<>>
     /\ ~InMatrix(job[j].req)) =>
      job[j].tool = None

ImageSources == {jpg, jpeg, png, webp, tiff, bmp}

MediaSources == {mp4, avi, mov, wmv, flv, mp3, wav, ogg, aac, m4a}

DocSources == {pdf, doc, docx, xls, xlsx, ppt, pptx, odt, ods, odp, rtf, txt}

ExtSets(v) ==
  IF v = "cjs"
  THEN [c \in {"images", "documents", "audio", "video"} |->
          CASE c = "images"    -> Range(imageExts)
            [] c = "documents" -> Range(docExts)
            [] c = "audio"     -> Range(audioExts)
            [] c = "video"     -> Range(videoExts)]
  ELSE [c \in {categories[i].category : i \in DOMAIN categories} |->
          UNION {Range(categories[i].extensions) :
                   i \in {k \in DOMAIN categories : categories[k].category = c}}]

DocumentCategory(v) == IF v = "cjs" THEN "documents" ELSE "document"

\* C9: getFileCategory returns one of the four categories for every file
\* name: the category whose set holds the lower-cased extension, Document
\* when no set holds it (the empty extension included); the four sets are
\* pairwise disjoint
C9_ClassifierTotalDisjoint ==
  clsOut # None =>
    LET ext  == toLowerCase(slice(extname(clsName), 1))
        sets == ExtSets(variant)
    IN /\ Cardinality(DOMAIN sets) = 4
       /\ clsOut \in DOMAIN sets
       /\ \A c \in DOMAIN sets : ext \in sets[c] => clsOut = c
       /\ (\A c \in DOMAIN sets : ext \notin sets[c]) => clsOut = DocumentCategory(variant)
       /\ \A c, d \in DOMAIN sets : c # d => sets[c] \cap sets[d] = {}

\* C9 witness: an upper-case video extension is classified as video
C9_Witness ==
  /\ clsName = <<"a", Dot>> \o toUpperCase(mov)
  /\ clsOut = "video"

\* C10 (as claimed): a document process never runs past the 30 s timeout
C10_DocProcessBounded ==
  \A j \in Jobs :
    (job[j].pc = "running" /\ job[j].tool = "libreoffice") =>
      job[j].elapsed <= ExecTimeoutMs

\* the capabilities of an answer were obtained by running the probe commands
Probed == probe.status = 200 /\ (probe.endpoint = "capabilities" \/ variant = "p0")

\* C11: an answer built from the capability probe reports image capability
\* true, media capability true exactly when ffmpeg ran, and document
\* capability true exactly when libreoffice or soffice ran, in the
\* environment of that request
C11_ProbeReportsBackends ==
  Probed =>
    /\ probe.caps.image = "true"
    /\ probe.caps.media = "true" <=> probe.env.ff
    /\ probe.caps.document = "true" <=> (probe.env.lo \/ probe.env.so)
    /\ probe.caps.media \in {"true", "false"}
    /\ probe.caps.document \in {"true", "false"}

\* C11 witness: part_000 probed where only the soffice alias is installed
C11_Witness ==
  /\ variant = "p0" /\ Probed
  /\ ~probe.env.lo /\ probe.env.so /\ ~probe.env.ff
  /\ probe.caps.document = "true" /\ probe.caps.media = "false"

\* C12 (as claimed): every 200 answer of /api/health and /api/capabilities
\* reports the media and document capabilities of the environment that
\* request ran in
C12_ProbedPerRequest ==
  probe.status = 200 =>
    /\ probe.caps.media = JsonValue(probe.env.ff)
    /\ probe.caps.document = JsonValue(probe.env.lo \/ probe.env.so)

\* C13 (as claimed): the file of every download is the converted artifact
\* and is named {base name of the upload}.{outputFormat}; a.png asked as
\* webp is answered with a 200 download unless the image library, able to
\* write its output, failed on the input
C13_DownloadIsNamedArtifact ==
  \A j \in Jobs :
    /\ job[j].resp.kind = "download" =>
          /\ job[j].resp.body.kind = "artifact"
          /\ job[j].resp.fileName =
               parseName(job[j].req.originalname) \o <<Dot>> \o job[j].req.outputFormat
    /\ (job[j].req = Request(TRUE, NameOf(<<"a">>, png), webp) /\ job[j].resp.kind # None) =>
          \/ job[j].resp.status = 200 /\ job[j].resp.kind = "download"
          \/ job[j].outcome = "error" /\ writeOk(variant, job[j].outPath)

\* C14: a request without a file part is answered 400 "No file uploaded",
\* whether or not it names an output format; a request with a file and no
\* outputFormat is answered 400 "Output format not specified"; for neither
\* is a backend invoked or a process or temp directory created
C14_ValidationRejects ==
  \A j \in Jobs :
    job[j].pc # "idle" =>
      /\ ~job[j].req.file =>
            /\ job[j].resp.kind = "json" /\ job[j].resp.status = 400
            /\ job[j].resp.error = "No file uploaded"
            /\ job[j].tool = None /\ job[j].pc = "done" /\ j \notin tempDirs
      /\ (job[j].req.file /\ job[j].req.outputFormat = <<>>) =>
            /\ job[j].resp.kind = "json" /\ job[j].resp.status = 400
            /\ job[j].resp.error = "Output format not specified"
            /\ job[j].tool = None /\ job[j].pc = "done" /\ j \notin tempDirs

\* C14 witness: a request with neither file nor outputFormat, answered for
\* the missing file
C14_Witness ==
  \E j \in Jobs :
    /\ job[j].pc = "done" /\ ~job[j].req.file /\ job[j].req.outputFormat = <<>>
    /\ job[j].resp.status = 400 /\ job[j].resp.error = "No file uploaded"

\* C15: a request whose file part is larger than the variant's limit is
\* answered with an error without any backend, process or temp directory
\* for it, and no file of the request is on disk
C15_OversizeRejected ==
  \A j \in Jobs :
    (job[j].pc # "idle" /\ job[j].req.file /\ job[j].req.size > fileSize(variant)) =>
      /\ job[j].pc = "done" /\ job[j].resp.status >= 400
      /\ job[j].tool = None /\ j \notin tempDirs
      /\ JobFiles(fs, j) = {}

\* C15 witness: part_000 rejects a file one byte over its 50 MB which the
\* other variants accept
C15_Witness ==
  \E j \in Jobs :
    /\ variant = "p0" /\ job[j].pc = "done"
    /\ job[j].req.size = fileSize("p0") + 1 /\ job[j].req.size <= fileSize("p1")
    /\ job[j].resp.status = 500 /\ job[j].tool = None /\ JobFiles(fs, j) = {}

\* the backend a request was handed to can run in this environment
BackendPresent(j) ==
  CASE job[j].tool = "ffmpeg"      -> ffmpegInstalled
    [] job[j].tool = "libreoffice" -> DocProcessRuns(variant)
    [] OTHER                       -> TRUE

\* why a request answered by a catch block failed: the handler refused the
\* formats without a backend, the backend is not installed, or the backend
\* ran and reported an error
FailureKind(j) ==
  CASE job[j].tool = None  -> "format unsupported"
    [] ~BackendPresent(j)  -> "backend unavailable"
    [] job[j].outcome \in {"error", "error_partial"} -> "conversion tool errored"
    [] OTHER               -> "other"

\* C16 (as claimed): the 500 of a failed conversion has a JSON body with an
\* error kind and a detail string, and two conversions that failed for
\* different reasons are answered with different error kinds
C16_ErrorKindsDistinct ==
  /\ \A j \in Jobs :
       Failed(j) => (job[j].resp.error # "" /\ job[j].resp.details \notin {"", None})
  /\ \A j, k \in Jobs :
       (/\ Failed(j) /\ Failed(k)
        /\ FailureKind(j) # "other" /\ FailureKind(k) # "other"
        /\ FailureKind(j) # FailureKind(k)) =>
         job[j].resp.error # job[k].resp.error

\* C17 (as claimed): after a zero exit convertWithLibreOffice resolves with
\* {baseName}.{targetFormat} of the output directory when LibreOffice wrote
\* it, and rejects when LibreOffice wrote nothing
C17_ArtifactLocatedOrNotFound ==
  \A j \in Jobs :
    (variant = "p0" /\ job[j].tool = "libreoffice") =>
      /\ job[j].outcome = "ok" =>
            /\ job[j].adapter = "resolved"
            /\ job[j].found =
                 join(uploadsDir, parseName(basename(job[j].inPath))
                                    \o <<Dot>> \o job[j].req.outputFormat)
      /\ job[j].outcome = "nooutput" => job[j].adapter = "rejected"

\* C18 (as claimed): a request whose convertWithLibreOffice resolved with a
\* path is not answered with the 500 of a failed conversion
C18_ResolvedNeverFailed ==
  \A j \in Jobs :
    (variant = "p0" /\ job[j].adapter = "resolved") => ~Failed(j)

\* C19 (as claimed): once convertWithLibreOffice has settled, however it
\* settled, its temp/<uuid> directory is gone
C19_TempDirRemoved ==
  \A j \in Jobs :
    (variant = "p0" /\ job[j].tool = "libreoffice" /\ job[j].pc # "running") =>
      j \notin tempDirs

\* C20 (as claimed): where deletions fail, no response carries the error of
\* a failed deletion: the 500 of a failed conversion is the one the
\* conversion's own error gives
C20_DeletionFailureOnlyLogged ==
  \A j \in Jobs :
    job[j].resp.kind = "json" =>
      (job[j].resp.error # UnlinkError /\ job[j].resp.details # UnlinkError)

\* C21 (as claimed): the promise of a media conversion whose ffmpeg command
\* has emitted its terminal event is settled: resolved after 'end', rejected
\* after 'error'
C21_MediaSettlesByEvent ==
  \A j \in Jobs :
    (job[j].tool = "ffmpeg" /\ job[j].outcome # None) =>
      /\ job[j].outcome = "end" => job[j].adapter = "resolved"
      /\ job[j].outcome \in {"error", "error_partial"} => job[j].adapter = "rejected"

\* C22: a converter is called at most once for a request, and exactly once
\* for a request that was handed to a backend, whatever the outcome
C22_NoRetry ==
  \A j \in Jobs :
    /\ job[j].invoked <= 1
    /\ job[j].tool # None => job[j].invoked = 1

\* C22 witness: a request whose backend failed, answered 500 after the one
\* call
C22_Witness ==
  \E j \in Jobs :
    /\ job[j].outcome = "error" /\ job[j].pc = "done" /\ Failed(j)
    /\ job[j].invoked = 1

\* C23 (as claimed): in server.cjs and part_001 every image request that
\* names an output format is handed to the image library, whatever the
\* name of the format
C23_ImageDefaultEncoder ==
  \A j \in Jobs :
    (/\ variant \in {"cjs", "p1"} /\ job[j].pc # "idle"
     /\ job[j].req.file /\ ~LimitExceeded(variant, job[j].req)
     /\ job[j].req.outputFormat # <<>>
     /\ getFileCategory(variant, job[j].req.originalname) \in {"image", "images"}) =>
      job[j].tool = "sharp"

\* C24 (as claimed): no request whose client has gone still has its spawned
\* backend process running
C24_AbandonedProcessTerminated ==
  \A j \in Jobs :
    job[j].client = "gone" =>
      ~(job[j].pc = "running" /\ job[j].tool \in {"ffmpeg", "libreoffice"})

\* a new request, a.mov to be converted to mp4, is accepted in slot k
Accepts(k) ==
  \E r \in Requests : Convert_cjs(k, r) \/ Convert_p0(k, r) \/ Convert_p1(k, r)

\* the request in slot k takes its next step: its backend ends and the
\* handler resumes, or its download ends
Progresses(k) ==
  \/ \E o \in {"ok", "end", "nooutput", "error", "error_partial", "killed"} :
       \/ BackendDone_cjs(k, o) \/ MediaDone_cjs(k, o)
       \/ BackendDone_p0(k, o) \/ LibreOfficeDone_p0(k, o)
       \/ BackendDone_p1(k, o) \/ DocumentDone_p1(k, o)
  \/ \E err \in BOOLEAN :
       DownloadCallback_cjs(k, err) \/ DownloadCallback_p0(k, err) \/ DownloadCallback_p1(k, err)

\* C25: while the media or document backend of one request runs, the server
\* can accept another request in a free slot, and another request that is
\* running or sending can take its next step
C25_BackendDoesNotBlock ==
  \A j, k \in Jobs :
    (/\ j # k /\ ~crashed
     /\ job[j].pc = "running" /\ job[j].tool \in {"ffmpeg", "libreoffice"}) =>
      /\ job[k].pc = "idle" => ENABLED Accepts(k)
      /\ job[k].pc \in {"running", "sending"} => ENABLED Progresses(k)

\* C25 witness: a request has been answered with a download while the
\* document process of the other request, started before, is still running
C25_Witness ==
  \E j, k \in Jobs :
    /\ j # k /\ variant = "p1"
    /\ job[j].pc = "running" /\ job[j].tool = "libreoffice" /\ job[j].elapsed >= ExecTimeoutMs
    /\ job[k].pc = "done" /\ job[k].resp.kind = "download"


\* C26 (as claimed): two concurrent requests never touch each other's files:
\* the file a download streams was written by the conversion of the request
\* that is answered with it, and while the download is being sent the file
\* stays on disk as that request's own
C26_JobsDoNotShareFiles ==
  \A j \in Jobs :
    /\ job[j].resp.kind = "download" => job[j].resp.body.by = j
    /\ job[j].pc = "sending" =>
          /\ existsSync(fs, job[j].resp.path)
          /\ fs[job[j].resp.path].by = j


\* C27 (as claimed): a request that passed the upload middleware and whose
\* backend, if one was started, has terminated is answered, with a download
\* or with a JSON error body; none is left without a response
C27_OneTerminalOutcome ==
  \A j \in Jobs :
    (job[j].pc \notin {"idle", "running"} /\ ~LimitExceeded(variant, job[j].req)) =>
      /\ job[j].resp.kind \in {"download", "json"}
      /\ job[j].resp.kind = "download" => job[j].resp.status = 200
      /\ job[j].resp.kind = "json" => job[j].resp.status \in {400, 500}


\* the 500 of the throw that follows a failed existsSync(outputPath)
NotCreated(j) ==
  /\ Failed(j)
  /\ job[j].resp.details \in {"Conversion failed - output file not created",
                               "Conversion completed but output file not found"}

\* C28: a download is started only for a request whose adapter has ended
\* and whose output path was on disk when res.download was called; a
\* request whose sharp or ffmpeg run ended well but whose output path was
\* not on disk when the handler resumed is answered with the 500, never
\* with a download
C28_DownloadOnlyOfExistingOutput ==
  \A j \in Jobs :
    /\ job[j].resp.kind = "download" =>
          /\ job[j].outcome # None
          /\ job[j].pc # "running"
          /\ job[j].resp.body # NoContent
    /\ (variant \in {"p0", "p1"} /\ job[j].outcome \in {"ok", "end"}
        /\ job[j].tool \in {"sharp", "ffmpeg"} /\ job[j].resp.kind # None) =>
          \/ job[j].resp.kind = "download" /\ job[j].resp.body # NoContent
          \/ NotCreated(j)

\* part_001: ffmpeg or sharp ended well, the output path had been removed
\* by the other request's cleanup, and the request is answered with the 500
C28_Witness ==
  \E j \in Jobs :
    /\ variant = "p1" /\ job[j].outcome \in {"ok", "end"}
    /\ job[j].tool \in {"sharp", "ffmpeg"}
    /\ NotCreated(j)

=============================================================================
